---- MODULE Spec2Model ----
(***************************************************************************)
(* Model of gitidy: the `clean` command of src/main.rs (open, fetch, scan, *)
(* sort, print), the fetch of src/git_utils.rs and the confirmation helper *)
(* of src/io_utils.rs.                                                     *)
(*                                                                         *)
(* Strings are sequences of one-character strings so that padding, trim    *)
(* and lower-casing are computed.  u64 arithmetic is modelled modulo       *)
(* 2^WordBits; WordBits is scaled down from 64 so that TLC's integers can  *)
(* hold it, and all times of the model are far below the modulus.          *)
(***************************************************************************)
EXTENDS Integers, Sequences, FiniteSets, TLC

VARIABLES
    quiet,          \* cli.quiet
    yes,            \* Commands::Clean.yes
    stale,          \* Commands::Clean.stale
    build,          \* "debug" (overflow checks on) or "release" (wrapping)
    pc,             \* position of main
    exit,           \* process exit status, -1 while running
    fail,           \* what ended the run abnormally, "none" otherwise
    stages,         \* history: stages entered so far, in order
    repo,           \* the repository's branches, in enumeration order
    fetched,        \* history: the repository's branches right after the fetch
    pos,            \* number of items the branch iterator has yielded
    now,            \* the system clock (seconds since the epoch)
    seen,           \* history: per iteration, the clock read and the age computed
    branches,       \* Vec<BranchDetails>
    max_name_len,   \* the name column width
    out,            \* standard output, a sequence of lines
    stdin,          \* standard input, a sequence of characters
    call            \* the last call of confirm: arguments, line read, result

vars == <<quiet, yes, stale, build, pc, exit, fail, stages, repo, fetched, pos,
          now, seen, branches, max_name_len, out, stdin, call>>

mainVars == <<quiet, yes, stale, build, pc, exit, fail, stages, repo, fetched,
              pos, now, seen, branches, max_name_len>>

----------------------------------------------------------------------------
(* Bounds of the model *)

MaxBranches == 2        \* longest branch enumeration
TickSecs == 2           \* seconds the clock may advance during one iteration
WordBits == 24          \* width of the modelled unsigned word (u64 scaled)
MaxInput == 3           \* longest standard input, in characters

(* Program constants *)

DaySecs == 86400        \* seconds per day
DefaultStale == 30      \* default of --stale
DefaultWidth == 10      \* unwrap_or(10)

Width == 2 ^ WordBits

----------------------------------------------------------------------------
(* Strings *)

InvalidUtf8 == <<"<","i","n","v","a","l","i","d"," ","U","T","F","-","8",">">>
NameMain == <<"m","a","i","n">>
NameFeature == <<"f","e","a","t","u","r","e","/","x">>
NameOrigin == <<"o","r","i","g","i","n","/","m","a","i","n">>
NameDev == <<"d","é","v">>
NameFix == <<"f","i","x">>

\* bytes of the UTF-8 encoding of one character
Utf8Bytes(c) == IF c = "é" THEN 2 ELSE 1

RECURSIVE ByteLen(_)
\* String::len(): the length in bytes
ByteLen(s) == IF s = <<>> THEN 0 ELSE Utf8Bytes(Head(s)) + ByteLen(Tail(s))

\* format!("{:<width$}", name): left-aligned, padded with spaces to `width`
\* characters, never truncated
PadLeftAligned(name, width) ==
    IF Len(name) >= width THEN name
    ELSE name \o [i \in 1..(width - Len(name)) |-> " "]

----------------------------------------------------------------------------
(* Times *)

Now0 == 50 * DaySecs

AsU64(t) == t % Width

WrappingSub(a, b) == (a - b) % Width

\* now - commit_time on u64 overflows exactly when now < commit_time
SubOverflows(n, ct) == n < ct

\* Duration::from_secs(now - commit_time).as_secs() / 86400
AgeDays(n, ct) == WrappingSub(n, ct) \div DaySecs

----------------------------------------------------------------------------
(* The repository the backend presents *)

Entry(nm, nr, k, it, tp, t) ==
    [name |-> nm, nameRes |-> nr, kind |-> k, item |-> it, tip |-> tp, time |-> t]

BranchPool ==
    { Entry(NameMain,    "ok", "local",  "ok", "commit", Now0 - 2 * DaySecs),
      Entry(NameFeature, "ok", "local",  "ok", "commit", Now0 - 45 * DaySecs),
      Entry(NameOrigin,  "ok", "remote", "ok", "commit", Now0 - 31 * DaySecs + 1),
      Entry(NameDev,     "ok", "local",  "ok", "commit", Now0 - 31 * DaySecs + 1),
      Entry(NameFix,     "ok", "local",  "ok", "commit", Now0 - 45 * DaySecs),
      Entry(<<"n","e","w">>, "ok", "remote", "ok", "commit", Now0 + DaySecs),
      Entry(<<"o","l","d">>, "ok", "local", "ok", "commit", 0 - DaySecs),
      Entry(<<"g","o","n","e">>, "ok", "remote", "ok", "not_found", 0),
      Entry(<<"s","y","m">>, "ok", "local", "ok", "no_target", 0),
      Entry(<<>>, "invalid_utf8", "local", "ok", "commit", Now0 - 31 * DaySecs + 2),
      Entry(<<"b","a","d">>, "err", "local", "ok", "commit", Now0 - 45 * DaySecs),
      Entry(<<>>, "ok", "local", "err", "commit", 0) }

RECURSIVE SeqsOfLen(_, _)
SeqsOfLen(S, n) ==
    IF n = 0 THEN { <<>> }
    ELSE { Append(s, e) : s \in SeqsOfLen(S, n - 1), e \in S }

Distinct(s) == \A i, j \in 1..Len(s) : i # j => s[i] # s[j]

Repos == UNION { { s \in SeqsOfLen(BranchPool, n) : Distinct(s) } : n \in 0..MaxBranches }

StaleVals == {2, DefaultStale}

Ticks == {0, TickSecs}

----------------------------------------------------------------------------
(* Sorting and printing *)

RECURSIVE InsertBeforeEqual(_, _)
\* variant: an element is placed before the elements equal to it
InsertBeforeEqual(s, x) ==
    IF s = <<>> THEN <<x>>
    ELSE IF Head(s).age > x.age THEN <<Head(s)>> \o InsertBeforeEqual(Tail(s), x)
    ELSE <<x>> \o s

RECURSIVE InsertByAge(_, _)
\* the place of x in a list sorted by b.age.cmp(&a.age): after every element
\* that does not compare greater, so equal elements keep their order
InsertByAge(s, x) ==
    IF s = <<>> THEN <<x>>
    ELSE IF Head(s).age >= x.age THEN <<Head(s)>> \o InsertByAge(Tail(s), x)
    ELSE <<x>> \o s

RECURSIVE SortByAge(_)
\* branches.sort_by(|a, b| b.age.cmp(&a.age)): a stable sort, age descending
SortByAge(s) ==
    IF s = <<>> THEN <<>>
    ELSE InsertByAge(SortByAge(SubSeq(s, 1, Len(s) - 1)), s[Len(s)])

MaxOf(S) ==
    IF S = {} THEN 0
    ELSE LET x == CHOOSE y \in S : \A z \in S : z <= y IN x

\* variant: 10 is a floor of the width, not only the width of an empty list
MaxNameLenFloor(bs) ==
    MaxOf({DefaultWidth} \cup { ByteLen(bs[i].name) : i \in 1..Len(bs) })

\* branches.iter().map(|b| b.name.len()).max().unwrap_or(10)
MaxNameLen(bs) ==
    IF bs = <<>> THEN DefaultWidth
    ELSE MaxOf({ ByteLen(bs[i].name) : i \in 1..Len(bs) })

SummaryLine(n) == [line |-> "summary", count |-> n]

\* "* {branch_str}    {age_str}"
RowLine(b, width) ==
    [line |-> "row", field |-> PadLeftAligned(b.name, width), age |-> b.age]

\* what the `if !cli.quiet` block prints
Printed(q, bs, width) ==
    IF q THEN <<>>
    ELSE <<SummaryLine(Len(bs))>> \o [i \in 1..Len(bs) |-> RowLine(bs[i], width)]

----------------------------------------------------------------------------
(* The run of main *)

NoCall ==
    [prompt |-> <<>>, default |-> FALSE, input |-> <<>>, ret |-> FALSE, done |-> FALSE]

InitMain ==
    /\ quiet \in BOOLEAN
    /\ yes \in BOOLEAN
    /\ stale \in StaleVals
    /\ build \in {"debug", "release"}
    /\ pc = "idle"
    /\ exit = -1
    /\ fail = "none"
    /\ stages = <<>>
    /\ repo = <<>>
    /\ fetched = <<>>
    /\ pos = 0
    /\ now = Now0
    /\ seen = <<>>
    /\ branches = <<>>
    /\ max_name_len = 0
    /\ out = <<>>

Init ==
    /\ InitMain
    /\ stdin = <<>>
    /\ call = NoCall

\* a fatal error: a panic exits with 101, an Err returned from main with 1
Abort(cause, status) ==
    /\ pc' = "failed"
    /\ fail' = cause
    /\ exit' = status

\* Repository::open(".") succeeds
OpenOk ==
    /\ pc = "idle"
    /\ pc' = "opened"
    /\ stages' = Append(stages, "open")
    /\ UNCHANGED <<quiet, yes, stale, build, exit, fail, repo, fetched, pos, now,
                   seen, branches, max_name_len, out, stdin, call>>

\* Repository::open(".").expect(...) panics
OpenFail ==
    /\ pc = "idle"
    /\ Abort("open", 101)
    /\ stages' = Append(stages, "open")
    /\ UNCHANGED <<quiet, yes, stale, build, repo, fetched, pos, now,
                   seen, branches, max_name_len, out, stdin, call>>

\* git_utils::fetch_remote(&repo, "origin") returns Ok: the remote-tracking
\* branches are updated and pruned, r is the repository's branches afterwards
FetchOk ==
    /\ pc = "opened"
    /\ \E r \in Repos :
        /\ repo' = r
        /\ fetched' = r
    /\ pc' = "fetched"
    /\ stages' = Append(stages, "fetch")
    /\ UNCHANGED <<quiet, yes, stale, build, exit, fail, pos, now,
                   seen, branches, max_name_len, out, stdin, call>>

\* variant: the error of fetch_remote is dropped and the run goes on
FetchFailIgnored ==
    /\ pc = "opened"
    /\ pc' = "fetched"
    /\ fail' = "fetch"
    /\ stages' = Append(stages, "fetch")
    /\ UNCHANGED <<quiet, yes, stale, build, exit, repo, fetched, pos, now,
                   seen, branches, max_name_len, out, stdin, call>>

\* fetch_remote returns Err (find_remote or remote.fetch failed) and `?`
\* returns it from main
FetchFail ==
    /\ pc = "opened"
    /\ Abort("fetch", 1)
    /\ stages' = Append(stages, "fetch")
    /\ UNCHANGED <<quiet, yes, stale, build, repo, fetched, pos, now,
                   seen, branches, max_name_len, out, stdin, call>>

\* repo.branches(None) returns the iterator
ScanBegin ==
    /\ pc = "fetched"
    /\ pc' = "scanning"
    /\ stages' = Append(stages, "scan")
    /\ UNCHANGED <<quiet, yes, stale, build, exit, fail, repo, fetched, pos, now,
                   seen, branches, max_name_len, out, stdin, call>>

\* repo.branches(None)? fails
ScanBeginFail ==
    /\ pc = "fetched"
    /\ Abort("enumerate", 1)
    /\ stages' = Append(stages, "scan")
    /\ UNCHANGED <<quiet, yes, stale, build, repo, fetched, pos, now,
                   seen, branches, max_name_len, out, stdin, call>>

\* variant: a tip that does not resolve is taken for a commit
CommitOfAny(e) == "some"

\* branch.get().target().and_then(|oid| repo.find_commit(oid).ok())
CommitOf(e) == IF e.tip = "commit" THEN "some" ELSE "none"

\* branch.name()?.unwrap_or("<invalid UTF-8>")
NameOf(e) == IF e.nameRes = "invalid_utf8" THEN InvalidUtf8 ELSE e.name

\* variant: the threshold itself counts as stale
IsStaleInclusive(age, threshold) == age >= threshold

\* the test that selects a branch: age > *stale
IsStale(age, threshold) == age > threshold

\* the iteration's record of what it read and computed (-1: no age computed)
Seen(n, a) == [now |-> n, age |-> a]

\* one iteration of the loop over repo.branches(None), the clock having
\* advanced by dt since the previous one
ScanBranch(dt) ==
    /\ pc = "scanning"
    /\ pos < Len(repo)
    /\ LET e == repo[pos + 1]
           n == now + dt
           ct == AsU64(e.time)
           age == AgeDays(n, ct)
       IN
        /\ now' = n
        /\ pos' = pos + 1
        /\ IF e.item = "err" THEN
                /\ Abort("item", 1)
                /\ seen' = Append(seen, Seen(n, -1))
                /\ UNCHANGED branches
           ELSE IF e.nameRes = "err" THEN
                /\ Abort("name", 1)
                /\ seen' = Append(seen, Seen(n, -1))
                /\ UNCHANGED branches
           ELSE IF CommitOf(e) = "none" THEN
                /\ seen' = Append(seen, Seen(n, -1))
                /\ UNCHANGED <<pc, fail, exit, branches>>
           ELSE IF SubOverflows(n, ct) /\ build = "debug" THEN
                /\ Abort("overflow", 101)
                /\ seen' = Append(seen, Seen(n, -1))
                /\ UNCHANGED branches
           ELSE
                /\ seen' = Append(seen, Seen(n, age))
                /\ branches' =
                     IF IsStale(age, stale)
                     THEN Append(branches, [name |-> NameOf(e), kind |-> e.kind,
                                            age |-> age, idx |-> pos + 1])
                     ELSE branches
                /\ UNCHANGED <<pc, fail, exit>>
    /\ UNCHANGED <<quiet, yes, stale, build, stages, repo, fetched,
                   max_name_len, out, stdin, call>>

\* variant: the stale branches are deleted without asking
ReportDeleting ==
    /\ pc = "scanning"
    /\ pos = Len(repo)
    /\ LET sorted == SortByAge(branches)
           width == MaxNameLen(sorted)
       IN
        /\ branches' = sorted
        /\ max_name_len' = width
        /\ out' = out \o Printed(quiet, sorted, width)
    /\ repo' = SelectSeq(repo, LAMBDA e :
                  \A k \in 1..Len(branches) : repo[branches[k].idx] # e)
    /\ pc' = "reported"
    /\ stages' = Append(stages, "report")
    /\ UNCHANGED <<quiet, yes, stale, build, exit, fail, fetched, pos, now,
                   seen, stdin, call>>

\* the iterator is exhausted: sort, compute the column width, print
Report ==
    /\ pc = "scanning"
    /\ pos = Len(repo)
    /\ LET sorted == SortByAge(branches)
           width == MaxNameLen(sorted)
       IN
        /\ branches' = sorted
        /\ max_name_len' = width
        /\ out' = out \o Printed(quiet, sorted, width)
    /\ pc' = "reported"
    /\ stages' = Append(stages, "report")
    /\ UNCHANGED <<quiet, yes, stale, build, exit, fail, repo, fetched, pos, now,
                   seen, stdin, call>>

\* Ok(()) is returned from main
Exit ==
    /\ pc = "reported"
    /\ pc' = "done"
    /\ exit' = 0
    /\ UNCHANGED <<quiet, yes, stale, build, fail, stages, repo, fetched, pos, now,
                   seen, branches, max_name_len, out, stdin, call>>

Next ==
    \/ OpenOk
    \/ OpenFail
    \/ FetchOk
    \/ FetchFail
    \/ ScanBegin
    \/ ScanBeginFail
    \/ \E dt \in Ticks : ScanBranch(dt)
    \/ Report
    \/ Exit

Spec == Init /\ [][Next]_vars

----------------------------------------------------------------------------
(* The confirmation helper of io_utils.rs *)

Chars == {"y", "Y", "n", " ", "\r", "\n"}

Inputs == UNION { SeqsOfLen(Chars, n) : n \in 0..MaxInput }

Prompts == { <<"D","e","l","e","t","e","?">>, <<>> }

\* char::is_whitespace
Whitespace(c) == c \in {" ", "\n", "\t", "\r"}

RECURSIVE TrimStart(_)
TrimStart(s) ==
    IF s # <<>> /\ Whitespace(Head(s)) THEN TrimStart(Tail(s)) ELSE s

RECURSIVE TrimEnd(_)
TrimEnd(s) ==
    IF s # <<>> /\ Whitespace(s[Len(s)]) THEN TrimEnd(SubSeq(s, 1, Len(s) - 1)) ELSE s

\* str::trim
Trim(s) == TrimEnd(TrimStart(s))

LowerChar(c) == IF c = "Y" THEN "y" ELSE c

\* variant: the case is kept
ToLowercaseKeep(s) == s

\* str::to_lowercase
ToLowercase(s) == [i \in 1..Len(s) |-> LowerChar(s[i])]

\* number of characters read_line takes: up to and including the first
\* newline, or everything when there is none
LineEnd(s) ==
    IF \E i \in 1..Len(s) : s[i] = "\n"
    THEN CHOOSE i \in 1..Len(s) : s[i] = "\n" /\ \A j \in 1..(i - 1) : s[j] # "\n"
    ELSE Len(s)

\* io::stdin().read_line(&mut input)
ReadLine(s) == SubSeq(s, 1, LineEnd(s))

\* print!("{prompt} (y/N): ")
PromptText(p) == p \o <<" ","(","y","/","N",")",":"," ">>

\* confirm(prompt, default)
Confirm(p, default) ==
    /\ ~call.done
    /\ IF default THEN
            /\ call' = [prompt |-> p, default |-> TRUE, input |-> stdin,
                        ret |-> TRUE, done |-> TRUE]
            /\ UNCHANGED <<out, stdin>>
       ELSE LET line == ReadLine(stdin)
                input == ToLowercase(Trim(line))
            IN
            /\ out' = Append(out, PromptText(p))
            /\ stdin' = SubSeq(stdin, Len(line) + 1, Len(stdin))
            /\ call' = [prompt |-> p, default |-> FALSE, input |-> stdin,
                        ret |-> (input = <<"y">>), done |-> TRUE]
    /\ UNCHANGED mainVars

InitConfirm ==
    /\ InitMain
    /\ stdin \in Inputs
    /\ call = NoCall

NextConfirm == \E p \in Prompts, d \in BOOLEAN : Confirm(p, d)

SpecConfirm == InitConfirm /\ [][NextConfirm]_vars

----------------------------------------------------------------------------
(* Properties *)

\* branch i of the enumeration has a record in the stale set
InStaleSet(i) == \E k \in 1..Len(branches) : branches[k].idx = i

\* an age was computed for branch i (its tip resolved and the run went on)
AgeComputed(i) == i \in 1..Len(seen) /\ seen[i].age # -1

Finished == pc \in {"reported", "done"}

\* the rows printed, in order (empty under --quiet)
Rows == IF out = <<>> THEN <<>> ELSE Tail(out)

\* C1: every branch whose tip resolved is in the stale set iff the age
\* computed for it is strictly greater than the threshold (an age equal to
\* the threshold is left out); the record carries that age, and the rows
\* printed are the stale set.
C1_StaleIffOlder ==
    /\ \A i \in 1..Len(seen) :
        AgeComputed(i) => (InStaleSet(i) <=> seen[i].age > stale)
    /\ \A k \in 1..Len(branches) :
        /\ AgeComputed(branches[k].idx)
        /\ branches[k].age = seen[branches[k].idx].age
    /\ (Finished /\ ~quiet) =>
        /\ Len(out) = 1 + Len(branches)
        /\ out[1].count = Len(branches)
        /\ \A k \in 1..Len(branches) : Rows[k].age = branches[k].age

C1_Witness ==
    /\ pc = "done"
    /\ ~quiet
    /\ \E i \in 1..Len(seen) : seen[i].age = stale /\ ~InStaleSet(i)
    /\ \E j \in 1..Len(seen) : AgeComputed(j) /\ InStaleSet(j)
    /\ Len(Rows) = 1

\* C2: every age computed equals floor((now - commit_time) / 86400), and of
\* two computations for the same commit time the later one never yields the
\* smaller age.
C2_AgeIsFloor ==
    /\ \A i \in 1..Len(seen) :
        AgeComputed(i) => seen[i].age = (seen[i].now - repo[i].time) \div DaySecs
    /\ \A i, j \in 1..Len(seen) :
        (AgeComputed(i) /\ AgeComputed(j) /\ repo[i].time = repo[j].time
            /\ seen[i].now <= seen[j].now) => seen[i].age <= seen[j].age

\* branch i was reached with a tip commit dated after the clock read for it
FutureDated(i) ==
    /\ i \in 1..Len(seen)
    /\ repo[i].item = "ok"
    /\ repo[i].nameRes # "err"
    /\ repo[i].tip = "commit"
    /\ repo[i].time > seen[i].now

\* C3: a branch whose commit time is later than now does not abort the run,
\* gets age 0 and is never selected as stale.
C3_FutureCommitClamped ==
    \A i \in 1..Len(seen) :
        FutureDated(i) =>
            /\ ~(fail = "overflow" /\ pos = i)
            /\ seen[i].age = 0
            /\ ~InStaleSet(i)

Confirmed == call.done /\ call.ret

\* C4: after the fetch a branch is missing from the repository only if `yes`
\* was given or a confirmation returned true; without either, the branches
\* after the report are the branches right after the fetch.
C4_NoUnconfirmedDeletion ==
    /\ \A i \in 1..Len(fetched) :
        (\A j \in 1..Len(repo) : repo[j] # fetched[i]) => (yes \/ Confirmed)
    /\ (Finished /\ ~yes /\ ~Confirmed) => repo = fetched

C4_Witness ==
    /\ pc = "done"
    /\ ~yes
    /\ ~Confirmed
    /\ branches # <<>>
    /\ fetched # <<>>
    /\ repo = fetched

StageOrder == <<"open", "fetch", "scan", "report">>

\* C5: the stages entered are a prefix of open, fetch, scan, report (each at
\* most once, in this order); after a failed fetch the run has ended with a
\* non-zero status, no branch was enumerated and nothing was printed.
C5_LinearPipeline ==
    /\ Len(stages) <= Len(StageOrder)
    /\ stages = SubSeq(StageOrder, 1, Len(stages))
    /\ fail = "fetch" =>
        /\ pc = "failed"
        /\ exit > 0
        /\ stages = <<"open", "fetch">>
        /\ pos = 0
        /\ seen = <<>>
        /\ branches = <<>>
        /\ out = <<>>

C5_Witness == fail = "fetch" /\ pc = "failed" /\ exit = 1

\* branch i was enumerated and named, and its tip is missing or not a commit
BrokenTip(i) ==
    /\ i \in 1..pos
    /\ repo[i].item = "ok"
    /\ repo[i].nameRes # "err"
    /\ repo[i].tip # "commit"

\* C6: a branch whose tip does not resolve has no record and no row, is never
\* what ends the run, and a run that ends normally has enumerated every
\* branch and exits with status 0.
C6_BrokenTipSkipped ==
    /\ \A i \in 1..pos :
        BrokenTip(i) =>
            /\ ~InStaleSet(i)
            /\ ~(pc = "failed" /\ pos = i)
    /\ Len(branches) <= Cardinality({ i \in 1..pos : ~BrokenTip(i) })
    /\ Len(Rows) <= Len(branches)
    /\ pc = "done" => (exit = 0 /\ pos = Len(repo) /\ fail = "none")

C6_Witness ==
    /\ pc = "done"
    /\ exit = 0
    /\ ~quiet
    /\ BrokenTip(1)
    /\ InStaleSet(2)
    /\ Len(Rows) = 1

\* the line holds a single y or Y between whitespace
IsYes(line) ==
    \E a \in 1..Len(line) :
        /\ line[a] \in {"y", "Y"}
        /\ \A i \in 1..Len(line) : i # a => line[i] \in {" ", "\n", "\t", "\r"}

C8_SortedStable ==
    Finished =>
        /\ \A i, j \in 1..Len(branches) :
            i < j =>
                /\ branches[i].age >= branches[j].age
                /\ branches[i].age = branches[j].age => branches[i].idx < branches[j].idx
        /\ SortByAge(branches) = branches
        /\ \A i, j \in 1..Len(Rows) : i < j => Rows[i].age >= Rows[j].age

C8_Witness ==
    /\ pc = "done"
    /\ ~quiet
    /\ Len(Rows) = 2
    /\ Len(branches) = 2
    /\ branches[1].age = branches[2].age
    /\ branches[1].idx < branches[2].idx

\* the longest name of the records, in bytes (0 when there is none)
Longest == MaxOf({ ByteLen(branches[k].name) : k \in 1..Len(branches) })

RowsPadded == \A k \in 1..Len(Rows) : Len(Rows[k].field) = max_name_len

\* C9 as stated: the width is the maximum of 10 and the longest name, and
\* every printed name field has exactly this width.
C9_WidthFloorTen ==
    Finished =>
        /\ max_name_len = (IF Longest > DefaultWidth THEN Longest ELSE DefaultWidth)
        /\ RowsPadded

\* C9 as amended: the width is the longest name of the records, or 10 when
\* there is no record (so it is below 10 when every name is shorter), and
\* every printed name field has exactly this width.
C9_WidthLongestOrDefault ==
    Finished =>
        /\ max_name_len = (IF branches = <<>> THEN DefaultWidth ELSE Longest)
        /\ \A k \in 1..Len(branches) : ByteLen(branches[k].name) <= max_name_len
        /\ RowsPadded

C9_Witness ==
    /\ pc = "done"
    /\ ~quiet
    /\ Len(Rows) = 2
    /\ max_name_len < DefaultWidth
    /\ \E k \in 1..2 : Len(branches[k].name) < max_name_len

\* the age of branch i was computed without overflow
AgeInRange(i) == AgeComputed(i) /\ ~SubOverflows(seen[i].now, AsU64(repo[i].time))

\* C10: within one run two branches with equal commit times get equal ages,
\* and the branch with the earlier commit time never gets the smaller age.
C10_UniformNow ==
    \A i, j \in 1..Len(seen) :
        (AgeInRange(i) /\ AgeInRange(j)) =>
            /\ repo[i].time = repo[j].time => seen[i].age = seen[j].age
            /\ repo[i].time < repo[j].time => seen[i].age >= seen[j].age

====
